---- MODULE Spec2Model ----
(***************************************************************************)
(* Borrow/return reservation engine of the LOT platform worker.            *)
(*                                                                         *)
(* The D1 tables items, borrow_records, users, subscriptions,              *)
(* community_posts and audit_logs, the KV availability cache and the KV    *)
(* keys of the OTP login are the state.  Every awaited                     *)
(* D1/KV statement of createBorrow is one atomic step of a request, so     *)
(* that concurrent requests interleave exactly where the worker runtime    *)
(* lets them interleave.  The other handlers are taken as one step each,   *)
(* except where a property is about their interleaving.                    *)
(* D1 enforces the FOREIGN KEY clauses of schema.sql.                      *)
(***************************************************************************)
EXTENDS Integers, Sequences, FiniteSets, TLC

(* ------------------------------ bounds --------------------------------- *)
NumUsers == 2
NumItems == 2
NumProcs == 2
MaxBorrows == 2
MaxTicks == 1
MaxAudit == 1
MaxPoints == 320

(* ------------------------- program constants --------------------------- *)
DaySeconds == 24 * 60 * 60
SubscriptionSeconds == 30 * 24 * 60 * 60
MinDuration == 1
MaxDuration == 30
DefaultTrust == 100
TrustCap == 200
GoodReturnDelta == 2
DamagedDelta == 10

\* SQL NULL / a missing row, and the clock value the model starts from
NULL == -1
Epoch0 == 100 * DaySeconds

Users == 1..NumUsers
ItemIds == 1..NumItems
Procs == 1..NumProcs

VARIABLES items, borrows, users, subs, kv, audit_logs, now, req, resp,
          community_posts, auth_kv

vars == <<items, borrows, users, subs, kv, audit_logs, now, req, resp,
          community_posts, auth_kv>>

(* ------------------------------ PLANS ---------------------------------- *)
PLANS ==
    [BASIC     |-> [max_items |-> 1,  max_risk_level |-> "low"],
     MAKER     |-> [max_items |-> 3,  max_risk_level |-> "medium"],
     INNOVATOR |-> [max_items |-> 10, max_risk_level |-> "high"]]

PlanNames == {"BASIC", "MAKER", "INNOVATOR"}

NoSubscription ==
    [present |-> FALSE, plan |-> "", max_items |-> 0, max_risk_level |-> "",
     expires_at |-> NULL]

\* the row createSubscription / the checkout webhook writes for a plan
SubscriptionRow(plan, t) ==
    [present |-> TRUE, plan |-> plan,
     max_items |-> PLANS[plan].max_items,
     max_risk_level |-> PLANS[plan].max_risk_level,
     expires_at |-> IF plan = "BASIC" THEN NULL ELSE t + SubscriptionSeconds]

(* ------------------------- tables and queries -------------------------- *)
DeletedItem ==
    [exists |-> FALSE, available |-> 0, risk_level |-> "", min_level_required |-> 0]

ItemRow(risk, minLevel) ==
    [exists |-> TRUE, available |-> 1, risk_level |-> risk,
     min_level_required |-> minLevel]

ItemExists(id) == id \in ItemIds /\ items[id].exists

BorrowIds == 1..Len(borrows)

\* riskLevels.indexOf(x): position in ['low','medium','high'], -1 if absent
RiskIndex(x) ==
    CASE x = "low" -> 0
      [] x = "medium" -> 1
      [] x = "high" -> 2
      [] OTHER -> -1

\* a query that forgets the item_id condition
ActiveBorrowOfItem_AnyItem(id) ==
    \E b \in BorrowIds : borrows[b].status = "active"

\* SELECT id FROM borrow_records WHERE item_id = ? AND status = 'active'
ActiveBorrowOfItem(id) ==
    \E b \in BorrowIds : borrows[b].item_id = id /\ borrows[b].status = "active"

\* SELECT id FROM borrow_records WHERE user_id = ? AND status = 'active'
ActiveBorrowsOfUser(u) ==
    {b \in BorrowIds : borrows[b].user_id = u /\ borrows[b].status = "active"}

\* isItemAvailable evaluated on one ledger state
IsItemAvailable(id) ==
    IF ~ItemExists(id) \/ items[id].available = 0
    THEN FALSE
    ELSE ~ActiveBorrowOfItem(id)

(* --------------------------- createBorrow ------------------------------ *)
IdleReq ==
    [pc |-> "idle", userId |-> 0, item_id |-> 0, duration_days |-> 0,
     risk_level |-> "", min_level_required |-> 0, level |-> 0,
     maxItems |-> 0, maxRiskLevel |-> "", borrow_id |-> 0, post_id |-> 0,
     action |-> ""]

\* the keys of one email address in the KV namespace: the stored OTP, the
\* count of the rate limit window and the number of live session keys
NoAuthKeys == [otp |-> "none", otp_rate |-> 0, sessions |-> 0]

NoResponse == [status |-> 0, reason |-> ""]

\* resp is the createBorrow or returnItem response the step just taken sent,
\* NoResponse when the step sent none
Reply(status, reason) == resp' = [status |-> status, reason |-> reason]

NoReply == resp' = NoResponse

\* the handler returns: the request is over
Respond(p, status, reason) ==
    /\ req' = [req EXCEPT ![p] = IdleReq]
    /\ Reply(status, reason)

Goto(p, pc) ==
    /\ req' = [req EXCEPT ![p].pc = pc]
    /\ NoReply

InFlight == {p \in Procs : req[p].pc # "idle"}

\* what a duration_days that is no number converts to in < and * (the body
\* is cast, never type-checked); every comparison with it is false
NaN == -3

\* duration_days < 1 || duration_days > 30
DurationOutOfRange(d) == d # NaN /\ (d < MinDuration \/ d > MaxDuration)

\* request accepted, body parsed and validated
CB_Start(p, uid, iid, d) ==
    /\ req[p].pc = "idle"
    /\ Len(borrows) + Cardinality(InFlight) < MaxBorrows
    /\ IF uid = 0
       THEN Respond(p, 401, "Unauthorized")
       ELSE IF iid = 0
       THEN Respond(p, 400, "item_id is required")
       ELSE IF DurationOutOfRange(d)
       THEN Respond(p, 400, "duration_days must be between 1 and 30")
       ELSE /\ req' = [req EXCEPT ![p] = [IdleReq EXCEPT !.pc = "selItem",
                                                         !.userId = uid,
                                                         !.item_id = iid,
                                                         !.duration_days = d]]
            /\ NoReply
    /\ UNCHANGED <<items, borrows, users, subs, kv, audit_logs, now, community_posts, auth_kv>>

\* SELECT ... FROM items WHERE id = ?
CB_SelectItem(p) ==
    /\ req[p].pc = "selItem"
    /\ IF ~ItemExists(req[p].item_id)
       THEN Respond(p, 404, "Item not found")
       ELSE /\ req' = [req EXCEPT
                ![p].pc = "availFlag",
                ![p].risk_level = items[req[p].item_id].risk_level,
                ![p].min_level_required = items[req[p].item_id].min_level_required]
            /\ NoReply
    /\ UNCHANGED <<items, borrows, users, subs, kv, audit_logs, now, community_posts, auth_kv>>

\* an availability check that believes a cached value when there is one
CB_AvailFlag_TrustsCache(p) ==
    /\ req[p].pc = "availFlag"
    /\ IF kv[req[p].item_id] = "false"
       THEN Respond(p, 409, "Item is not available for borrowing")
       ELSE IF kv[req[p].item_id] = "true"
       THEN Goto(p, "selUser")
       ELSE IF ~ItemExists(req[p].item_id) \/ items[req[p].item_id].available = 0
       THEN Respond(p, 409, "Item is not available for borrowing")
       ELSE Goto(p, "availBorrow")
    /\ UNCHANGED <<items, borrows, users, subs, kv, audit_logs, now, community_posts, auth_kv>>

\* isItemAvailable, first statement: SELECT available FROM items
CB_AvailFlag(p) ==
    /\ req[p].pc = "availFlag"
    /\ IF ~ItemExists(req[p].item_id) \/ items[req[p].item_id].available = 0
       THEN Respond(p, 409, "Item is not available for borrowing")
       ELSE Goto(p, "availBorrow")
    /\ UNCHANGED <<items, borrows, users, subs, kv, audit_logs, now, community_posts, auth_kv>>

\* isItemAvailable, second statement: SELECT the item's active borrow
CB_AvailBorrow(p) ==
    /\ req[p].pc = "availBorrow"
    /\ IF ActiveBorrowOfItem(req[p].item_id)
       THEN Respond(p, 409, "Item is not available for borrowing")
       ELSE Goto(p, "selUser")
    /\ UNCHANGED <<items, borrows, users, subs, kv, audit_logs, now, community_posts, auth_kv>>

InsufficientLevel_Lenient(level, minLevel) == level + 1 < minLevel

InsufficientLevel(level, minLevel) == level < minLevel

\* SELECT level FROM users WHERE id = ?
CB_SelectUser(p) ==
    /\ req[p].pc = "selUser"
    /\ IF InsufficientLevel(users[req[p].userId].level, req[p].min_level_required)
       THEN Respond(p, 403, "Item requires level")
       ELSE /\ req' = [req EXCEPT ![p].pc = "selSub",
                                  ![p].level = users[req[p].userId].level]
            /\ NoReply
    /\ UNCHANGED <<items, borrows, users, subs, kv, audit_logs, now, community_posts, auth_kv>>

IsExpired_NoNullGuard(sub, t) == sub.present /\ sub.expires_at < t

\* subscription?.expires_at && subscription.expires_at < Date.now() / 1000
IsExpired(sub, t) ==
    sub.present /\ sub.expires_at # NULL /\ sub.expires_at # 0 /\ sub.expires_at < t

\* canUserBorrowItem, first statement: SELECT ... FROM subscriptions
CB_SelectSub(p) ==
    /\ req[p].pc = "selSub"
    /\ LET sub == subs[req[p].userId] IN
       IF IsExpired(sub, now)
       THEN Respond(p, 403, "Subscription expired")
       ELSE /\ req' = [req EXCEPT
                ![p].pc = "selActive",
                ![p].maxItems = IF sub.present THEN sub.max_items ELSE 1,
                ![p].maxRiskLevel = IF sub.present THEN sub.max_risk_level ELSE "low"]
            /\ NoReply
    /\ UNCHANGED <<items, borrows, users, subs, kv, audit_logs, now, community_posts, auth_kv>>

LimitReached(activeCount, maxItems) == activeCount >= maxItems

RiskNotAllowed(itemRisk, maxRisk) == RiskIndex(itemRisk) > RiskIndex(maxRisk)

\* canUserBorrowItem, second statement: SELECT the user's active borrows
CB_SelectActive(p) ==
    /\ req[p].pc = "selActive"
    /\ IF LimitReached(Cardinality(ActiveBorrowsOfUser(req[p].userId)), req[p].maxItems)
       THEN Respond(p, 403, "Maximum items allowed for your plan")
       ELSE IF RiskNotAllowed(req[p].risk_level, req[p].maxRiskLevel)
       THEN Respond(p, 403, "Your plan doesn't allow this risk level")
       ELSE Goto(p, "insert")
    /\ UNCHANGED <<items, borrows, users, subs, kv, audit_logs, now, community_posts, auth_kv>>

NewBorrow(uid, iid, dueAt, qr, t) ==
    [user_id |-> uid, item_id |-> iid, borrowed_at |-> t, due_at |-> dueAt,
     returned_at |-> NULL, condition_notes |-> "", qr_code |-> qr,
     status |-> "active"]

\* now + duration_days * 24 * 60 * 60
DueAt(t, d) == IF d = NaN THEN NaN ELSE t + d * DaySeconds

\* INSERT INTO borrow_records ...: a NaN due_at is bound as NULL and fails
\* NOT NULL, the item_id foreign key must resolve, and borrowed_at is the
\* database's unixepoch(), read lag seconds after the handler's Date.now()
CB_Insert(p, qr, lag) ==
    /\ req[p].pc = "insert"
    /\ IF DueAt(now, req[p].duration_days) = NaN
       THEN /\ Respond(p, 500, "NOT NULL constraint failed")
            /\ UNCHANGED borrows
       ELSE IF ~ItemExists(req[p].item_id)
       THEN /\ Respond(p, 500, "FOREIGN KEY constraint failed")
            /\ UNCHANGED borrows
       ELSE /\ borrows' = Append(borrows,
                   NewBorrow(req[p].userId, req[p].item_id,
                             DueAt(now, req[p].duration_days), qr, now + lag))
            /\ req' = [req EXCEPT ![p].pc = "markUnavailable",
                                  ![p].borrow_id = Len(borrows) + 1]
            /\ NoReply
    /\ UNCHANGED <<items, users, subs, kv, audit_logs, now, community_posts, auth_kv>>

\* a conditional update that answers Conflict when the flag is already 0
CB_MarkUnavailable_Conflict(p) ==
    /\ req[p].pc = "markUnavailable"
    /\ IF ItemExists(req[p].item_id) /\ items[req[p].item_id].available = 1
       THEN /\ items' = [items EXCEPT ![req[p].item_id].available = 0]
            /\ Goto(p, "invalidate")
       ELSE /\ UNCHANGED items
            /\ Respond(p, 409, "Item is not available for borrowing")
    /\ UNCHANGED <<borrows, users, subs, kv, audit_logs, now, community_posts, auth_kv>>

\* UPDATE items SET available = 0 WHERE id = ?
CB_MarkUnavailable(p) ==
    /\ req[p].pc = "markUnavailable"
    /\ items' = IF ItemExists(req[p].item_id)
                THEN [items EXCEPT ![req[p].item_id].available = 0]
                ELSE items
    /\ Goto(p, "invalidate")
    /\ UNCHANGED <<borrows, users, subs, kv, audit_logs, now, community_posts, auth_kv>>

\* invalidateAvailabilityCache, then the 201 response
CB_Invalidate(p) ==
    /\ req[p].pc = "invalidate"
    /\ kv' = [kv EXCEPT ![req[p].item_id] = "none"]
    /\ Respond(p, 201, "Borrow created successfully")
    /\ UNCHANGED <<items, borrows, users, subs, audit_logs, now, community_posts, auth_kv>>

(* ------------------------- availability cache -------------------------- *)
\* String(available)
BoolString(b) == IF b THEN "true" ELSE "false"

\* getCachedAvailability: a miss computes isItemAvailable and caches it
GetCachedAvailability(itemId) ==
    /\ kv' = IF kv[itemId] # "none"
             THEN kv
             ELSE [kv EXCEPT ![itemId] = BoolString(IsItemAvailable(itemId))]
    /\ NoReply
    /\ UNCHANGED <<items, borrows, users, subs, audit_logs, now, community_posts, auth_kv, req>>

\* getCachedAvailability statement by statement, run by process p
GC_Start(p, itemId) ==
    /\ req[p].pc = "idle"
    /\ req' = [req EXCEPT ![p].pc = "cacheGet", ![p].item_id = itemId]
    /\ NoReply
    /\ UNCHANGED <<items, borrows, users, subs, kv, audit_logs, now, community_posts, auth_kv>>

\* const cached = await env.KV.get(cacheKey); a hit returns at once
GC_Get(p) ==
    /\ req[p].pc = "cacheGet"
    /\ req' = [req EXCEPT ![p] = IF kv[req[p].item_id] # "none"
                                  THEN IdleReq
                                  ELSE [req[p] EXCEPT !.pc = "cacheCompute"]]
    /\ NoReply
    /\ UNCHANGED <<items, borrows, users, subs, kv, audit_logs, now, community_posts, auth_kv>>

\* const available = await isItemAvailable(env, itemId)
GC_Compute(p) ==
    /\ req[p].pc = "cacheCompute"
    /\ Goto(p, IF IsItemAvailable(req[p].item_id) THEN "cachePutTrue"
                                                  ELSE "cachePutFalse")
    /\ UNCHANGED <<items, borrows, users, subs, kv, audit_logs, now, community_posts, auth_kv>>

\* await env.KV.put(cacheKey, String(available), { expirationTtl: 300 })
GC_Put(p) ==
    /\ req[p].pc \in {"cachePutTrue", "cachePutFalse"}
    /\ kv' = [kv EXCEPT ![req[p].item_id] = BoolString(req[p].pc = "cachePutTrue")]
    /\ req' = [req EXCEPT ![p] = IdleReq]
    /\ NoReply
    /\ UNCHANGED <<items, borrows, users, subs, audit_logs, now, community_posts, auth_kv>>

\* the awaited D1 or KV statement of the current step rejects: createBorrow
\* rethrows, the worker's fetch handler answers 500, and nothing is undone
CB_StorageFailure(p) ==
    /\ req[p].pc # "idle"
    /\ Respond(p, 500, "Internal Server Error")
    /\ UNCHANGED <<items, borrows, users, subs, kv, audit_logs, now, community_posts, auth_kv>>

(* --------------------------- confirmHandover --------------------------- *)
\* SELECT id, status FROM borrow_records WHERE qr_code = ?
RecordsWithToken(qr_code) == {b \in BorrowIds : borrows[b].qr_code = qr_code}

\* a handover check that only refuses concluded reservations
ConfirmHandover_AcceptsOverdue(qr_code) ==
    /\ IF qr_code = ""
       THEN Reply(400, "qr_code is required")
       ELSE IF RecordsWithToken(qr_code) = {}
       THEN Reply(404, "Invalid QR code")
       ELSE \E borrow \in RecordsWithToken(qr_code) :
               IF borrows[borrow].status = "returned"
               THEN Reply(400, "Borrow is not active")
               ELSE Reply(200, "Handover confirmed")
    /\ UNCHANGED <<items, borrows, users, subs, kv, audit_logs, now, community_posts, auth_kv, req>>

\* .first() yields one matching row; no ORDER BY says which one
ConfirmHandover(qr_code) ==
    /\ IF qr_code = ""
       THEN Reply(400, "qr_code is required")
       ELSE IF RecordsWithToken(qr_code) = {}
       THEN Reply(404, "Invalid QR code")
       ELSE \E borrow \in RecordsWithToken(qr_code) :
               IF borrows[borrow].status # "active"
               THEN Reply(400, "Borrow is not active")
               ELSE Reply(200, "Handover confirmed")
    /\ UNCHANGED <<items, borrows, users, subs, kv, audit_logs, now, community_posts, auth_kv, req>>

(* ----------------------------- returnItem ------------------------------ *)
\* UPDATE users SET trust_score = ... after a return
TrustAfterReturn(score, condition) ==
    IF condition = "damaged"
    THEN score - DamagedDelta
    ELSE IF score < TrustCap THEN score + GoodReturnDelta ELSE score

\* a return that does not look at the record's status
ReturnItem_Again(id, notes, condition) ==
    /\ IF id \notin BorrowIds
       THEN /\ UNCHANGED <<items, borrows, users, kv>>
            /\ Reply(404, "Borrow record not found")
       ELSE LET borrow == borrows[id] IN
            /\ Reply(200, "Item returned successfully")
            /\ borrows' = [borrows EXCEPT ![id].returned_at = now,
                                          ![id].status = "returned",
                                          ![id].condition_notes = notes]
            /\ items' = IF ItemExists(borrow.item_id)
                        THEN [items EXCEPT ![borrow.item_id].available = 1]
                        ELSE items
            /\ kv' = [kv EXCEPT ![borrow.item_id] = "none"]
            /\ users' = [users EXCEPT ![borrow.user_id].trust_score =
                            TrustAfterReturn(@, condition)]
    /\ UNCHANGED <<subs, audit_logs, now, community_posts, auth_kv, req>>

\* a return that leaves the cache entry in place
ReturnItem_KeepsCache(id, notes, condition) ==
    /\ IF id \notin BorrowIds
       THEN /\ UNCHANGED <<items, borrows, users, kv>>
            /\ Reply(404, "Borrow record not found")
       ELSE IF borrows[id].status = "returned"
       THEN /\ UNCHANGED <<items, borrows, users, kv>>
            /\ Reply(400, "Item already returned")
       ELSE LET borrow == borrows[id] IN
            /\ Reply(200, "Item returned successfully")
            /\ borrows' = [borrows EXCEPT ![id].returned_at = now,
                                          ![id].status = "returned",
                                          ![id].condition_notes = notes]
            /\ items' = IF ItemExists(borrow.item_id)
                        THEN [items EXCEPT ![borrow.item_id].available = 1]
                        ELSE items
            /\ kv' = kv
            /\ users' = [users EXCEPT ![borrow.user_id].trust_score =
                            TrustAfterReturn(@, condition)]
    /\ UNCHANGED <<subs, audit_logs, now, community_posts, auth_kv, req>>

ReturnItem(id, notes, condition) ==
    /\ IF id \notin BorrowIds
       THEN /\ UNCHANGED <<items, borrows, users, kv>>
            /\ Reply(404, "Borrow record not found")
       ELSE IF borrows[id].status = "returned"
       THEN /\ UNCHANGED <<items, borrows, users, kv>>
            /\ Reply(400, "Item already returned")
       ELSE LET borrow == borrows[id] IN
            /\ Reply(200, "Item returned successfully")
            /\ borrows' = [borrows EXCEPT ![id].returned_at = now,
                                          ![id].status = "returned",
                                          ![id].condition_notes = notes]
            /\ items' = IF ItemExists(borrow.item_id)
                        THEN [items EXCEPT ![borrow.item_id].available = 1]
                        ELSE items
            /\ kv' = [kv EXCEPT ![borrow.item_id] = "none"]
            /\ users' = [users EXCEPT ![borrow.user_id].trust_score =
                            TrustAfterReturn(@, condition)]
    /\ UNCHANGED <<subs, audit_logs, now, community_posts, auth_kv, req>>

(* -------------------------- getOverdueBorrows -------------------------- *)
\* a sweep that marks every active record, due or not
IsOverdue_IgnoresDue(b, t) == b.status = "active"

\* a sweep whose WHERE clause matches every record not yet returned
IsOverdue_AnyUnreturned(b, t) == b.status # "returned" /\ b.due_at < t

\* a sweep that looks at due_at only
IsOverdue_IgnoresStatus(b, t) == b.due_at < t

\* WHERE status = 'active' AND due_at < ?
IsOverdue(b, t) == b.status = "active" /\ b.due_at < t

\* the table after the UPDATE, and the number of rows the UPDATE matches
SweepOverdue(bs, t) ==
    [b \in 1..Len(bs) |->
        IF IsOverdue(bs[b], t) THEN [bs[b] EXCEPT !.status = "overdue"] ELSE bs[b]]

SweepCount(bs, t) == Cardinality({b \in 1..Len(bs) : IsOverdue(bs[b], t)})

GetOverdueBorrows ==
    /\ borrows' = SweepOverdue(borrows, now)
    /\ NoReply
    /\ UNCHANGED <<items, users, subs, kv, audit_logs, now, community_posts, auth_kv, req>>


\* returnItem statement by statement, run by process p with condition 'good':
\* the SELECT of the record and the two checks
RI_Select(p, id) ==
    /\ req[p].pc = "idle"
    /\ IF id \notin BorrowIds
       THEN Respond(p, 404, "Borrow record not found")
       ELSE IF borrows[id].status = "returned"
       THEN Respond(p, 400, "Item already returned")
       ELSE /\ req' = [req EXCEPT ![p] = [IdleReq EXCEPT
                                            !.pc = "returnRecord",
                                            !.borrow_id = id,
                                            !.item_id = borrows[id].item_id,
                                            !.userId = borrows[id].user_id]]
            /\ NoReply
    /\ UNCHANGED <<items, borrows, users, subs, kv, audit_logs, now, community_posts, auth_kv>>

\* (mutant) the UPDATE without its returned_at column
RI_UpdateRecord_StatusOnly(p) ==
    /\ req[p].pc = "returnRecord"
    /\ borrows' = [borrows EXCEPT ![req[p].borrow_id].status = "returned"]
    /\ Goto(p, "returnFlag")
    /\ UNCHANGED <<items, users, subs, kv, audit_logs, now, community_posts, auth_kv>>

\* UPDATE borrow_records SET returned_at = ?, status = 'returned', ...
RI_UpdateRecord(p) ==
    /\ req[p].pc = "returnRecord"
    /\ borrows' = [borrows EXCEPT ![req[p].borrow_id].returned_at = now,
                                  ![req[p].borrow_id].status = "returned",
                                  ![req[p].borrow_id].condition_notes = ""]
    /\ Goto(p, "returnFlag")
    /\ UNCHANGED <<items, users, subs, kv, audit_logs, now, community_posts, auth_kv>>

\* UPDATE items SET available = 1, then invalidateAvailabilityCache
RI_MarkAvailable(p) ==
    /\ req[p].pc = "returnFlag"
    /\ items' = IF ItemExists(req[p].item_id)
                THEN [items EXCEPT ![req[p].item_id].available = 1]
                ELSE items
    /\ kv' = [kv EXCEPT ![req[p].item_id] = "none"]
    /\ Goto(p, "returnTrust")
    /\ UNCHANGED <<borrows, users, subs, audit_logs, now, community_posts, auth_kv>>

\* UPDATE users SET trust_score = ..., then the 200 response
RI_Trust(p) ==
    /\ req[p].pc = "returnTrust"
    /\ users' = [users EXCEPT ![req[p].userId].trust_score =
                     TrustAfterReturn(@, "good")]
    /\ Respond(p, 200, "Item returned successfully")
    /\ UNCHANGED <<items, borrows, subs, kv, audit_logs, now, community_posts, auth_kv>>

(* ----------------------------- admin routes ---------------------------- *)
AuditEntry(action, targetType, targetId) ==
    [action |-> action, target_type |-> targetType, target_id |-> targetId]

AdminForceReturn(borrow_id, reason) ==
    /\ IF borrow_id = 0
       THEN /\ UNCHANGED <<items, borrows, audit_logs>>
       ELSE IF borrow_id \notin BorrowIds
       THEN /\ UNCHANGED <<items, borrows, audit_logs>>
       ELSE IF borrows[borrow_id].status = "returned"
       THEN /\ UNCHANGED <<items, borrows, audit_logs>>
       ELSE LET borrow == borrows[borrow_id] IN
            /\ borrows' = [borrows EXCEPT ![borrow_id].returned_at = now,
                                          ![borrow_id].status = "returned",
                                          ![borrow_id].condition_notes = reason]
            /\ items' = IF ItemExists(borrow.item_id)
                        THEN [items EXCEPT ![borrow.item_id].available = 1]
                        ELSE items
            /\ audit_logs' = Append(audit_logs,
                                AuditEntry("ADMIN_FORCE_RETURN", "borrow", borrow_id))
    /\ NoReply
    /\ UNCHANGED <<users, subs, kv, now, community_posts, auth_kv, req>>

LevelOutOfRange(level) == level = 0 \/ level < 1 \/ level > 5

AdminSetUserLevel(user_id, level) ==
    /\ Len(audit_logs) < MaxAudit
    /\ IF user_id = 0
       THEN /\ UNCHANGED <<users, audit_logs>>
       ELSE IF LevelOutOfRange(level)
       THEN /\ UNCHANGED <<users, audit_logs>>
       ELSE /\ users' = IF user_id \in Users
                        THEN [users EXCEPT ![user_id].level = level]
                        ELSE users
            /\ audit_logs' = Append(audit_logs,
                                AuditEntry("ADMIN_SET_LEVEL", "user", user_id))
    /\ NoReply
    /\ UNCHANGED <<items, borrows, subs, kv, now, community_posts, auth_kv, req>>

(* ----------------------------- trust engine ---------------------------- *)
\* UPDATE users SET trust_score = MAX(0, MIN(200, trust_score + ?))
UpdateTrustScore(score, delta) ==
    LET sum == score + delta
        capped == IF sum > TrustCap THEN TrustCap ELSE sum
    IN  IF capped < 0 THEN 0 ELSE capped

\* TRUST_CHANGES, the canonical trust deltas of the return events
TRUST_CHANGES ==
    [RETURN_ON_TIME |-> 2, RETURN_LATE |-> -5, RETURN_VERY_LATE |-> -15,
     ITEM_DAMAGED |-> -10]

\* RETURN_VERY_LATE applies past this many days overdue
VeryLateDays == 3

\* adminAdjustTrust with a custom_delta
AdminAdjustTrust(user_id, custom_delta) ==
    /\ IF user_id = 0
       THEN /\ UNCHANGED users
       ELSE /\ users' = IF user_id \in Users
                        THEN [users EXCEPT ![user_id].trust_score =
                                 UpdateTrustScore(@, custom_delta)]
                        ELSE users
    /\ NoReply
    /\ UNCHANGED <<items, borrows, subs, kv, audit_logs, now, community_posts, auth_kv, req>>

(* --------------------------- level progression ------------------------ *)
LEVEL_REQUIREMENTS == <<0, 100, 300, 700, 1500>>

calculateLevel(xp) ==
    IF xp >= LEVEL_REQUIREMENTS[5] THEN 5
    ELSE IF xp >= LEVEL_REQUIREMENTS[4] THEN 4
    ELSE IF xp >= LEVEL_REQUIREMENTS[3] THEN 3
    ELSE IF xp >= LEVEL_REQUIREMENTS[2] THEN 2
    ELSE 1

XP_REWARDS ==
    [BORROW_COMPLETE |-> 10, RETURN_ON_TIME |-> 15, RETURN_EARLY |-> 20,
     RETURN_LATE |-> -5, COMMUNITY_POST |-> 25, POST_APPROVED |-> 50,
     FIRST_BORROW |-> 50]

\* REWARD_MULTIPLIERS 1.0, 1.5 and 2.0, counted in halves
REWARD_MULTIPLIERS == [BASIC |-> 2, MAKER |-> 3, INNOVATOR |-> 4]

\* getRewardMultiplier: the plan of the user's subscription, else BASIC
getRewardMultiplier(userId) ==
    IF subs[userId].present
    THEN REWARD_MULTIPLIERS[subs[userId].plan]
    ELSE REWARD_MULTIPLIERS.BASIC

\* points rounded toward zero
AwardedPoints_Truncates(action, multiplier) ==
    LET product == XP_REWARDS[action] * multiplier
    IN  IF product < 0 THEN 0 - ((0 - product) \div 2) ELSE product \div 2

\* Math.floor(basePoints * multiplier)
AwardedPoints(action, multiplier) == (XP_REWARDS[action] * multiplier) \div 2

\* awardPointsWithMultiplier up to UPDATE users SET reward_points =
\* reward_points + ?, run by process p
AP_UpdatePoints(p, userId, action) ==
    /\ req[p].pc = "idle"
    /\ users[userId].reward_points < MaxPoints
    /\ users[userId].reward_points > -MaxPoints
    /\ users' = [users EXCEPT ![userId].reward_points =
                     @ + AwardedPoints(action, getRewardMultiplier(userId))]
    /\ req' = [req EXCEPT ![p].pc = "checkLevelUp", ![p].userId = userId]
    /\ NoReply
    /\ UNCHANGED <<items, borrows, subs, kv, audit_logs, now, community_posts, auth_kv>>

\* checkLevelUp: SELECT level, reward_points; newLevel > user.level ?
CL_Select(p) ==
    /\ req[p].pc = "checkLevelUp"
    /\ LET user == users[req[p].userId]
           newLevel == calculateLevel(user.reward_points)
       IN  req' = [req EXCEPT ![p] = IF newLevel > user.level
                                     THEN [req[p] EXCEPT !.pc = "levelUp",
                                                         !.level = newLevel]
                                     ELSE IdleReq]
    /\ NoReply
    /\ UNCHANGED <<items, borrows, users, subs, kv, audit_logs, now, community_posts, auth_kv>>

\* checkLevelUp: UPDATE users SET level = ? WHERE id = ?
CL_Update(p) ==
    /\ req[p].pc = "levelUp"
    /\ users' = [users EXCEPT ![req[p].userId].level = req[p].level]
    /\ req' = [req EXCEPT ![p] = IdleReq]
    /\ NoReply
    /\ UNCHANGED <<items, borrows, subs, kv, audit_logs, now, community_posts, auth_kv>>

\* adminAwardPoints with custom_points: the points are added, nothing else
AdminAwardCustomPoints(user_id, custom_points) ==
    /\ users[user_id].reward_points < MaxPoints
    /\ users' = [users EXCEPT ![user_id].reward_points = @ + custom_points]
    /\ NoReply
    /\ UNCHANGED <<items, borrows, subs, kv, audit_logs, now, community_posts, auth_kv, req>>

(* ---------------------------- community posts -------------------------- *)
PostIds == 1..Len(community_posts)

\* INSERT INTO community_posts (..., approved) VALUES (..., 0); reward_granted
\* takes its DEFAULT 0
PostRow(userId, item_id) ==
    [user_id |-> userId, item_id |-> item_id, approved |-> 0, reward_granted |-> 0]

\* awardPointsWithMultiplier(env, userId, action) inside a handler, up to the
\* UPDATE of reward_points; checkLevelUp follows
AwardPointsWithMultiplier(p) ==
    /\ req[p].pc = "award"
    /\ users[req[p].userId].reward_points < MaxPoints
    /\ users' = [users EXCEPT ![req[p].userId].reward_points =
                     @ + AwardedPoints(req[p].action,
                                       getRewardMultiplier(req[p].userId))]
    /\ Goto(p, "checkLevelUp")
    /\ UNCHANGED <<items, borrows, subs, kv, audit_logs, now, community_posts, auth_kv>>

\* createPost by the authenticated user userId: the two SELECTs and the
\* INSERT, taken as one step; item_id 0 is a body without item_id
CP_Insert(p, userId, item_id) ==
    /\ req[p].pc = "idle"
    /\ IF item_id = 0
       THEN /\ Respond(p, 400, "item_id is required")
            /\ UNCHANGED community_posts
       ELSE IF ~\E b \in BorrowIds : /\ borrows[b].user_id = userId
                                     /\ borrows[b].item_id = item_id
                                     /\ borrows[b].status = "returned"
       THEN /\ Respond(p, 403, "You must have borrowed and returned this item")
            /\ UNCHANGED community_posts
       ELSE IF \E i \in PostIds : /\ community_posts[i].user_id = userId
                                   /\ community_posts[i].item_id = item_id
       THEN /\ Respond(p, 409, "You have already posted about this item")
            /\ UNCHANGED community_posts
       ELSE /\ community_posts' = Append(community_posts, PostRow(userId, item_id))
            /\ req' = [req EXCEPT ![p] = [IdleReq EXCEPT !.pc = "award",
                                                         !.userId = userId,
                                                         !.action = "COMMUNITY_POST"]]
            /\ NoReply
    /\ UNCHANGED <<items, borrows, users, subs, kv, audit_logs, now, auth_kv>>

\* approvePost: the SELECT of the post and the two checks
PA_Select(p, id) ==
    /\ req[p].pc = "idle"
    /\ IF id \notin PostIds
       THEN Respond(p, 404, "Post not found")
       ELSE IF community_posts[id].approved = 1
       THEN Respond(p, 400, "Post already approved")
       ELSE /\ req' = [req EXCEPT ![p] = [IdleReq EXCEPT
                                            !.pc = "approvePost",
                                            !.post_id = id,
                                            !.userId = community_posts[id].user_id]]
            /\ NoReply
    /\ UNCHANGED <<items, borrows, users, subs, kv, audit_logs, now, community_posts, auth_kv>>

\* approvePost: UPDATE community_posts SET approved = 1, reward_granted = 1;
\* the bonus award follows
PA_Update(p) ==
    /\ req[p].pc = "approvePost"
    /\ community_posts' = [community_posts EXCEPT ![req[p].post_id].approved = 1,
                                                  ![req[p].post_id].reward_granted = 1]
    /\ req' = [req EXCEPT ![p].pc = "award", ![p].action = "POST_APPROVED"]
    /\ NoReply
    /\ UNCHANGED <<items, borrows, users, subs, kv, audit_logs, now, auth_kv>>

\* rejectPost: the SELECT and the unconditional UPDATE ... SET approved = -1
RejectPost(id) ==
    /\ IF id \notin PostIds
       THEN /\ Reply(404, "Post not found")
            /\ UNCHANGED community_posts
       ELSE /\ community_posts' = [community_posts EXCEPT ![id].approved = -1]
            /\ Reply(200, "Post rejected")
    /\ UNCHANGED <<items, borrows, users, subs, kv, audit_logs, now, req, auth_kv>>

(* ------------------------------ OTP login ------------------------------ *)
\* parseInt(rateCount) >= 3
OtpRateLimit == 3

\* requestOTP for the email of a registered user; generateOTP yields otp.
\* The KV get and the two puts are taken as one step
RequestOTP(otp) ==
    /\ IF auth_kv.otp_rate >= OtpRateLimit
       THEN /\ Reply(429, "Too many OTP requests. Try again later.")
            /\ UNCHANGED auth_kv
       ELSE /\ auth_kv' = [auth_kv EXCEPT !.otp = otp, !.otp_rate = @ + 1]
            /\ Reply(200, "OTP sent to email")
    /\ UNCHANGED <<items, borrows, users, subs, kv, audit_logs, now, req, community_posts>>

\* verifyOTP: KV.get(otpKey) and the comparisons; otp "" is a body without otp
VO_Get(p, otp) ==
    /\ req[p].pc = "idle"
    /\ IF otp = ""
       THEN Respond(p, 400, "OTP is required")
       ELSE IF auth_kv.otp = "none"
       THEN Respond(p, 400, "OTP expired or not found")
       ELSE IF auth_kv.otp # otp
       THEN Respond(p, 401, "Invalid OTP")
       ELSE Goto(p, "otpDelete")
    /\ UNCHANGED <<items, borrows, users, subs, kv, audit_logs, now, community_posts, auth_kv>>

\* verifyOTP: KV.delete(otpKey)
VO_Delete(p) ==
    /\ req[p].pc = "otpDelete"
    /\ auth_kv' = [auth_kv EXCEPT !.otp = "none"]
    /\ Goto(p, "otpSession")
    /\ UNCHANGED <<items, borrows, users, subs, kv, audit_logs, now, community_posts>>

\* verifyOTP: the SELECT of the user, KV.put(sessionKey, ...) and the 200
VO_Session(p) ==
    /\ req[p].pc = "otpSession"
    /\ auth_kv' = [auth_kv EXCEPT !.sessions = @ + 1]
    /\ Respond(p, 200, "Login successful")
    /\ UNCHANGED <<items, borrows, users, subs, kv, audit_logs, now, community_posts>>

(* ------------------------------ item routes ---------------------------- *)
Undefined == -2
UndefinedStr == "undefined"

\* String.prototype.toLowerCase on the risk_level inputs
ToLowerCase(str) ==
    CASE str = "LOW" -> "low"
      [] str = "Medium" -> "medium"
      [] str = "HIGH" -> "high"
      [] str = "Extreme" -> "extreme"
      [] OTHER -> str

UpdateBody(available, risk, minLevel) ==
    [available |-> available, risk_level |-> risk, min_level_required |-> minLevel]

UpdateItem(id, body) ==
    /\ IF ~ItemExists(id)
       THEN /\ UNCHANGED items
       ELSE IF /\ body.available = Undefined
               /\ body.risk_level = UndefinedStr
               /\ body.min_level_required = Undefined
       THEN /\ UNCHANGED items
       ELSE /\ items' = [items EXCEPT ![id] =
                [exists |-> TRUE,
                 available |-> IF body.available # Undefined
                               THEN body.available ELSE @.available,
                 risk_level |-> IF body.risk_level # UndefinedStr
                                THEN ToLowerCase(body.risk_level) ELSE @.risk_level,
                 min_level_required |-> IF body.min_level_required # Undefined
                                        THEN body.min_level_required
                                        ELSE @.min_level_required]]
    /\ NoReply
    /\ UNCHANGED <<borrows, users, subs, kv, audit_logs, now, community_posts, auth_kv, req>>

\* borrow_records.item_id REFERENCES items(id): the DELETE fails while any
\* borrow record of the item exists, and the handler then throws
ReferencedItem(id) == \E b \in BorrowIds : borrows[b].item_id = id

DeleteItem(id) ==
    /\ IF ActiveBorrowOfItem(id)
       THEN /\ UNCHANGED items
            /\ Reply(409, "Cannot delete item with active borrows")
       ELSE IF ItemExists(id) /\ ReferencedItem(id)
       THEN /\ UNCHANGED items
            /\ Reply(500, "FOREIGN KEY constraint failed")
       ELSE /\ items' = IF ItemExists(id)
                        THEN [items EXCEPT ![id] = DeletedItem]
                        ELSE items
            /\ Reply(200, "Item deleted")
    /\ UNCHANGED <<borrows, users, subs, kv, audit_logs, now, community_posts, auth_kv, req>>

(* -------------------------- subscription routes ------------------------ *)
CreateSubscription(user_id, plan) ==
    /\ IF user_id = 0
       THEN /\ UNCHANGED <<subs, users>>
       ELSE IF plan \notin PlanNames
       THEN /\ UNCHANGED <<subs, users>>
       ELSE IF user_id \notin Users
       THEN /\ UNCHANGED <<subs, users>>
       ELSE /\ subs' = [subs EXCEPT ![user_id] = SubscriptionRow(plan, now)]
            /\ IF subs[user_id].present
               THEN /\ UNCHANGED users
               ELSE /\ users' = [users EXCEPT ![user_id].membership_tier = plan]
    /\ NoReply
    /\ UNCHANGED <<items, borrows, kv, audit_logs, now, community_posts, auth_kv, req>>

CancelSubscription(userId) ==
    /\ IF userId \notin Users \/ ~subs[userId].present
       THEN /\ UNCHANGED <<subs, users>>
       ELSE /\ subs' = [subs EXCEPT ![userId] =
                          [SubscriptionRow("BASIC", now) EXCEPT !.expires_at = NULL]]
            /\ users' = [users EXCEPT ![userId].membership_tier = "BASIC"]
    /\ NoReply
    /\ UNCHANGED <<items, borrows, kv, audit_logs, now, community_posts, auth_kv, req>>

(* --------------------------- payment webhooks -------------------------- *)
\* checkout.session.completed with metadata {user_id, plan}; user_id 0 is a
\* metadata without user_id
StripeCheckoutCompleted(userId, plan) ==
    /\ IF userId = 0 \/ plan \notin PlanNames \/ userId \notin Users
       THEN /\ UNCHANGED <<subs, users>>
       ELSE /\ subs' = [subs EXCEPT ![userId] = SubscriptionRow(plan, now)]
            /\ users' = [users EXCEPT ![userId].membership_tier = plan]
    /\ NoReply
    /\ UNCHANGED <<items, borrows, kv, audit_logs, now, community_posts, auth_kv, req>>

\* invoice.paid: the rows whose payment_id contains the event's subscription
\* id, any set of rows, get 30 more days
StripeInvoicePaid(matched) ==
    /\ subs' = [u \in Users |->
                   IF u \in matched /\ subs[u].present
                   THEN [subs[u] EXCEPT !.expires_at = now + SubscriptionSeconds]
                   ELSE subs[u]]
    /\ NoReply
    /\ UNCHANGED <<items, borrows, users, kv, audit_logs, now, community_posts, auth_kv, req>>

\* customer.subscription.deleted: the first row whose payment_id contains the
\* event's id, if any, goes back to BASIC
StripeSubscriptionDeleted(matched) ==
    /\ IF matched \notin Users \/ ~subs[matched].present
       THEN /\ UNCHANGED <<subs, users>>
       ELSE /\ subs' = [subs EXCEPT ![matched] =
                          [SubscriptionRow("BASIC", now) EXCEPT !.expires_at = NULL]]
            /\ users' = [users EXCEPT ![matched].membership_tier = "BASIC"]
    /\ NoReply
    /\ UNCHANGED <<items, borrows, kv, audit_logs, now, community_posts, auth_kv, req>>

(* -------------------------------- clock -------------------------------- *)
\* the clock is observed every two days; a request is over within the
\* worker's time limit, so no request spans an observation, and every cache
\* entry (expirationTtl 300) has expired by the next one
TickSeconds == 2 * DaySeconds

Tick ==
    /\ InFlight = {}
    /\ now < Epoch0 + MaxTicks * TickSeconds
    /\ now' = now + TickSeconds
    /\ kv' = [i \in ItemIds |-> "none"]
    /\ auth_kv' = NoAuthKeys
    /\ NoReply
    /\ UNCHANGED <<items, borrows, users, subs, audit_logs, req, community_posts>>

(* ------------------------------ initial state -------------------------- *)
\* catalogs as createItem leaves them: valid risk tiers, levels in 1..5;
\* the second item is either a low-risk or a medium-risk one
SeedItem(i, risk2) ==
    CASE i = 1 -> ItemRow("low", 2)
      [] i = 2 -> ItemRow(risk2, 1)
      [] OTHER -> ItemRow("low", 1)

SeedCatalogs == {[i \in ItemIds |-> SeedItem(i, r)] : r \in {"low", "medium"}}

UserRow(level, trust, tier) ==
    [level |-> level, trust_score |-> trust, membership_tier |-> tier,
     reward_points |-> 0]

SeedUser(u) ==
    CASE u = 1 -> UserRow(2, DefaultTrust, "BASIC")
      [] u = 2 -> UserRow(1, DefaultTrust, "MAKER")
      [] OTHER -> UserRow(1, DefaultTrust, "BASIC")

\* user 1 holds a BASIC row (no expiry); user 2 subscribed to MAKER 29 days
\* before the run, so the row expires one day after Epoch0; the others have
\* no subscription row
SeedSubscription(u) ==
    CASE u = 1 -> SubscriptionRow("BASIC", Epoch0 - 29 * DaySeconds)
      [] u = 2 -> SubscriptionRow("MAKER", Epoch0 - 29 * DaySeconds)
      [] OTHER -> NoSubscription

Init ==
    /\ items \in SeedCatalogs
    /\ borrows = <<>>
    /\ users = [u \in Users |-> SeedUser(u)]
    /\ subs = [u \in Users |-> SeedSubscription(u)]
    /\ kv = [i \in ItemIds |-> "none"]
    /\ audit_logs = <<>>
    /\ now = Epoch0
    /\ req = [p \in Procs |-> IdleReq]
    /\ resp = NoResponse
    /\ community_posts = <<>>
    /\ auth_kv = NoAuthKeys

(* ------------------------------- inputs -------------------------------- *)
UserInputs == Users \cup {0}
ItemInputs == ItemIds \cup {0}
DurationInputs == {0, 1, 31}
QrCodes == {"LOT-0A1B2C3D"}
\* seconds between the handler's Date.now() and the database's unixepoch()
InsertLags == {0}
BorrowIdInputs == 1..MaxBorrows
Conditions == {"good", "damaged"}

CreateBorrowStep(p) ==
    \/ \E uid \in UserInputs, iid \in ItemInputs, d \in DurationInputs :
          CB_Start(p, uid, iid, d)
    \/ CB_SelectItem(p)
    \/ CB_AvailFlag(p)
    \/ CB_AvailBorrow(p)
    \/ CB_SelectUser(p)
    \/ CB_SelectSub(p)
    \/ CB_SelectActive(p)
    \/ \E qr \in QrCodes, lag \in InsertLags : CB_Insert(p, qr, lag)
    \/ CB_MarkUnavailable(p)
    \/ CB_Invalidate(p)

(* ---------------- the ledger under concurrent requests ----------------- *)
AvailabilityBodies ==
    {UpdateBody(a, UndefinedStr, Undefined) : a \in {0, 1}}

Next ==
    \/ \E p \in Procs : CreateBorrowStep(p)
    \/ \E id \in BorrowIdInputs : ReturnItem(id, "", "good")
    \/ \E id \in BorrowIdInputs : AdminForceReturn(id, "[ADMIN OVERRIDE]")
    \/ GetOverdueBorrows
    \/ \E id \in ItemIds, body \in AvailabilityBodies : UpdateItem(id, body)
    \/ \E id \in ItemIds : DeleteItem(id)
    \/ Tick

Spec == Init /\ [][Next]_vars

(* ---------------- the ledger under one request at a time -------------- *)
\* one client: a call returns before the next one starts, while the clock,
\* the sweep and item administration go on between its statements
SerialNext ==
    \/ CreateBorrowStep(1)
    \/ GetOverdueBorrows
    \/ \E id \in ItemIds, body \in AvailabilityBodies : UpdateItem(id, body)
    \/ \E id \in ItemIds : DeleteItem(id)
    \/ Tick

SpecSerial == Init /\ [][SerialNext]_vars

(* ---------------- one request process over a failing store ------------- *)
FaultNext ==
    \/ CreateBorrowStep(1)
    \/ CB_StorageFailure(1)
    \/ \E itemId \in ItemIds : GetCachedAvailability(itemId)

SpecFault == Init /\ [][FaultNext]_vars

(* ------------- concurrent reserve calls on one available item ---------- *)
\* the racing requests are accepted already, one per distinct user, all on
\* the same available low-risk item that every user is eligible for
RaceProcs == {p \in Procs : p \in Users}

RaceInit ==
    /\ items = [i \in ItemIds |-> ItemRow("low", 1)]
    /\ borrows = <<>>
    /\ users = [u \in Users |-> UserRow(1, DefaultTrust, "BASIC")]
    /\ subs = [u \in Users |-> NoSubscription]
    /\ kv = [i \in ItemIds |-> "none"]
    /\ audit_logs = <<>>
    /\ now = Epoch0
    /\ resp = NoResponse
    /\ community_posts = <<>>
    /\ auth_kv = NoAuthKeys
    /\ \E iid \in ItemIds, d \in {MinDuration, MaxDuration} :
          req = [p \in Procs |->
                    IF p \in RaceProcs
                    THEN [IdleReq EXCEPT !.pc = "selItem", !.userId = p,
                                         !.item_id = iid, !.duration_days = d]
                    ELSE IdleReq]

RaceStep(p) ==
    \/ CB_SelectItem(p)
    \/ CB_AvailFlag(p)
    \/ CB_AvailBorrow(p)
    \/ CB_SelectUser(p)
    \/ CB_SelectSub(p)
    \/ CB_SelectActive(p)
    \/ \E qr \in QrCodes, lag \in InsertLags : CB_Insert(p, qr, lag)
    \/ CB_MarkUnavailable(p)
    \/ CB_Invalidate(p)

RaceNext == \E p \in RaceProcs : RaceStep(p)

SpecRace == RaceInit /\ [][RaceNext]_vars

(* ------------- one request at a time under administration -------------- *)
CatalogBodies ==
    {UpdateBody(Undefined, "Extreme", Undefined),
     UpdateBody(Undefined, "HIGH", Undefined)}

LevelInputs == {0, 3}
PlanInputs == {"MAKER", "GOLD"}

\* one catalog, and user 1 without a subscription row
AdminInit ==
    /\ items = [i \in ItemIds |-> SeedItem(i, "medium")]
    /\ borrows = <<>>
    /\ users = [u \in Users |-> SeedUser(u)]
    /\ subs = [u \in Users |-> IF u = 1 THEN NoSubscription ELSE SeedSubscription(u)]
    /\ kv = [i \in ItemIds |-> "none"]
    /\ audit_logs = <<>>
    /\ now = Epoch0
    /\ req = [p \in Procs |-> IdleReq]
    /\ resp = NoResponse
    /\ community_posts = <<>>
    /\ auth_kv = NoAuthKeys

AdminNext ==
    \/ CreateBorrowStep(1)
    \/ \E id \in ItemIds, body \in CatalogBodies : UpdateItem(id, body)
    \/ \E u \in UserInputs, level \in LevelInputs : AdminSetUserLevel(u, level)
    \/ \E u \in UserInputs, plan \in PlanInputs : CreateSubscription(u, plan)
    \/ \E u \in Users : CancelSubscription(u)

SpecAdmin == AdminInit /\ [][AdminNext]_vars

(* ------------------- one member borrowing and returning ---------------- *)
ReturnNotes == {"scratched"}

\* the calls of one member, user 1, one at a time
MemberBorrowStep ==
    \/ \E iid \in ItemInputs, d \in DurationInputs : CB_Start(1, 1, iid, d)
    \/ RaceStep(1)

\* the member's ledger under returns, force returns, the sweep and the clock
MemberNext ==
    \/ MemberBorrowStep
    \/ \E id \in BorrowIdInputs, notes \in ReturnNotes : ReturnItem(id, notes, "good")
    \/ \E id \in BorrowIdInputs : AdminForceReturn(id, "[ADMIN OVERRIDE]")
    \/ GetOverdueBorrows
    \/ Tick

SpecMember == Init /\ [][MemberNext]_vars

\* the member's ledger with the availability cache in use
ReturnNext ==
    \/ MemberBorrowStep
    \/ \E id \in BorrowIdInputs, notes \in ReturnNotes : ReturnItem(id, notes, "good")
    \/ GetOverdueBorrows
    \/ \E id \in ItemIds : GetCachedAvailability(id)
    \/ Tick

SpecReturn == Init /\ [][ReturnNext]_vars

(* --------- a cache reader beside reserves, returns and overrides ------- *)
CacheReaderStep(p) ==
    \/ \E itemId \in ItemIds : GC_Start(p, itemId)
    \/ GC_Get(p)
    \/ GC_Compute(p)
    \/ GC_Put(p)

CacheNext ==
    \/ MemberBorrowStep
    \/ CacheReaderStep(2)
    \/ \E id \in BorrowIdInputs : ReturnItem(id, "", "good")
    \/ \E id \in BorrowIdInputs : AdminForceReturn(id, "[ADMIN OVERRIDE]")

SpecCache == Init /\ [][CacheNext]_vars

(* ------- one reserve at a time beside cache reads and overrides -------- *)
\* the ledger changes only between reserve calls; the cache is read, filled
\* and left stale by overrides at any moment
AdvisoryNext ==
    \/ CreateBorrowStep(1)
    \/ \E itemId \in ItemIds : GetCachedAvailability(itemId)
    \/ \E id \in BorrowIdInputs :
          InFlight = {} /\ AdminForceReturn(id, "[ADMIN OVERRIDE]")

SpecAdvisory == Init /\ [][AdvisoryNext]_vars

(* ------------------ the member's handover tokens ----------------------- *)
\* LOT- and the first eight hex digits of a random UUID, in upper case
TokenCodes == {"LOT-0A1B2C3D", "LOT-4E5F6A7B"}

TokenInputs == TokenCodes \cup {""}

\* the member's createBorrow with the token drawn at random
TokenBorrowStep ==
    \/ \E iid \in ItemInputs, d \in DurationInputs : CB_Start(1, 1, iid, d)
    \/ CB_SelectItem(1)
    \/ CB_AvailFlag(1)
    \/ CB_AvailBorrow(1)
    \/ CB_SelectUser(1)
    \/ CB_SelectSub(1)
    \/ CB_SelectActive(1)
    \/ \E qr \in TokenCodes, lag \in InsertLags : CB_Insert(1, qr, lag)
    \/ CB_MarkUnavailable(1)
    \/ CB_Invalidate(1)

TokenNext ==
    \/ TokenBorrowStep
    \/ \E qr \in TokenInputs : ConfirmHandover(qr)
    \/ \E id \in BorrowIdInputs : ReturnItem(id, "", "good")
    \/ GetOverdueBorrows
    \/ Tick

SpecToken == Init /\ [][TokenNext]_vars

(* ------------- the member's borrows under handover checks ------------- *)
HandoverInputs == QrCodes \cup {""}

HandoverNext ==
    \/ MemberBorrowStep
    \/ \E qr \in HandoverInputs : ConfirmHandover(qr)
    \/ \E id \in BorrowIdInputs : ReturnItem(id, "", "good")
    \/ GetOverdueBorrows
    \/ Tick

SpecHandover == Init /\ [][HandoverNext]_vars

(* ------------- the member's borrows of any requested length ----------- *)
\* duration_days of the request body: numbers around both limits and a
\* value that is no number
DurationBodies == {-1, 0, 1, 30, 31, NaN}

\* the insert may reach the database in the following second
ClockLags == {0, 1}

DurationBorrowStep ==
    \/ \E iid \in ItemIds, d \in DurationBodies : CB_Start(1, 1, iid, d)
    \/ CB_SelectItem(1)
    \/ CB_AvailFlag(1)
    \/ CB_AvailBorrow(1)
    \/ CB_SelectUser(1)
    \/ CB_SelectSub(1)
    \/ CB_SelectActive(1)
    \/ \E qr \in QrCodes, lag \in ClockLags : CB_Insert(1, qr, lag)
    \/ CB_MarkUnavailable(1)
    \/ CB_Invalidate(1)

DurationNext ==
    \/ DurationBorrowStep
    \/ \E id \in BorrowIdInputs : ReturnItem(id, "", "good")

SpecDuration == Init /\ [][DurationNext]_vars

(* ----------------- concurrent point awards to one member -------------- *)
AwardActions == DOMAIN XP_REWARDS

\* the member the awards go to: user 2, on the MAKER plan
AwardUsers == {2}

CustomPoints == {100, 200}

AwardStep(p) ==
    \/ \E u \in AwardUsers, action \in AwardActions : AP_UpdatePoints(p, u, action)
    \/ CL_Select(p)
    \/ CL_Update(p)

ProgressNext ==
    \/ \E p \in Procs : AwardStep(p)
    \/ \E u \in AwardUsers, c \in CustomPoints : AdminAwardCustomPoints(u, c)

SpecProgress == Init /\ [][ProgressNext]_vars

(* --------------- awards to a member who changes plans ----------------- *)
\* user 1 starts without a subscription row and takes and cancels plans
\* between and during awards
TierAwardNext ==
    \/ \E action \in AwardActions : AP_UpdatePoints(1, 1, action)
    \/ CL_Select(1)
    \/ CL_Update(1)
    \/ \E plan \in PlanNames : CreateSubscription(1, plan)
    \/ CancelSubscription(1)

SpecTierAward == AdminInit /\ [][TierAwardNext]_vars

(* ------------- two members, each on an item of their own --------------- *)
\* user 1 works on item 1 and user 2 on item 2, in any interleaving; a
\* record is returned while no reserve of its item is in flight
OwnItemStep(p) ==
    \/ \E d \in DurationInputs : CB_Start(p, p, p, d)
    \/ RaceStep(p)

ReturnOutsideReserve(id) ==
    /\ id \in BorrowIds => \A p \in InFlight : req[p].item_id # borrows[id].item_id
    /\ ReturnItem(id, "", "good")

TwoItemsNext ==
    \/ OwnItemStep(1)
    \/ OwnItemStep(2)
    \/ \E id \in BorrowIdInputs : ReturnOutsideReserve(id)
    \/ \E itemId \in ItemIds : GetCachedAvailability(itemId)

SpecTwoItems == Init /\ [][TwoItemsNext]_vars

(* ------------------- community posts and their review ----------------- *)
PostInputs == 1..NumItems

\* the member returns items and posts about them; the admin's approve and
\* reject calls run concurrently
CommunityNext ==
    \/ MemberBorrowStep
    \/ \E id \in BorrowIdInputs : ReturnItem(id, "", "good")
    \/ \E iid \in ItemInputs : CP_Insert(1, 1, iid)
    \/ \E p \in Procs, id \in PostInputs : PA_Select(p, id)
    \/ \E p \in Procs : PA_Update(p)
    \/ \E p \in Procs : AwardPointsWithMultiplier(p)
    \/ \E p \in Procs : CL_Select(p)
    \/ \E p \in Procs : CL_Update(p)
    \/ \E id \in PostInputs : RejectPost(id)

SpecCommunity == Init /\ [][CommunityNext]_vars

(* --------------------------- concurrent logins ------------------------- *)
OtpCodes == {"123456", "654321"}

LoginNext ==
    \/ \E otp \in OtpCodes : RequestOTP(otp)
    \/ \E p \in Procs, otp \in OtpCodes \cup {""} : VO_Get(p, otp)
    \/ \E p \in Procs : VO_Delete(p)
    \/ \E p \in Procs : VO_Session(p)
    \/ Tick

SpecLogin == Init /\ [][LoginNext]_vars

(* ------------------- subscriptions and their payments ----------------- *)
BillingNext ==
    \/ \E u \in Users \cup {0}, plan \in PlanNames : CreateSubscription(u, plan)
    \/ \E u \in Users : CancelSubscription(u)
    \/ \E u \in Users \cup {0}, plan \in PlanNames \cup {"PREMIUM"} :
           StripeCheckoutCompleted(u, plan)
    \/ \E matched \in SUBSET Users : StripeInvoicePaid(matched)
    \/ \E matched \in Users \cup {0} : StripeSubscriptionDeleted(matched)
    \/ Tick

SpecBilling == AdminInit /\ [][BillingNext]_vars

(* ------------- concurrent returns of the member's record -------------- *)
ReturnStep(p) ==
    \/ \E id \in BorrowIdInputs : RI_Select(p, id)
    \/ RI_UpdateRecord(p)
    \/ RI_MarkAvailable(p)
    \/ RI_Trust(p)

ConcludeNext ==
    \/ MemberBorrowStep
    \/ \E p \in Procs : ReturnStep(p)
    \/ \E id \in BorrowIdInputs : AdminForceReturn(id, "[ADMIN OVERRIDE]")

SpecConclude == Init /\ [][ConcludeNext]_vars

\* one return at a time, statement by statement, beside the overdue sweep,
\* the admin's force return and the passing of time
SettleNext ==
    \/ MemberBorrowStep
    \/ ReturnStep(1)
    \/ \E id \in BorrowIdInputs : AdminForceReturn(id, "[ADMIN OVERRIDE]")
    \/ GetOverdueBorrows
    \/ Tick

SpecSettle == Init /\ [][SettleNext]_vars

(* ------------------ returns under trust administration ----------------- *)
TrustDeltas == {-1000, 1000}

TrustNext ==
    \/ CreateBorrowStep(1)
    \/ \E id \in BorrowIdInputs, c \in Conditions : ReturnItem(id, "", c)
    \/ \E u \in UserInputs, delta \in TrustDeltas : AdminAdjustTrust(u, delta)

SpecTrust == Init /\ [][TrustNext]_vars

(* ======================== properties of the engine ===================== *)
HeldStatuses == {"active", "overdue"}

\* the borrow records that hold an item / that a user holds
Holders(i) ==
    {b \in BorrowIds : borrows[b].item_id = i /\ borrows[b].status \in HeldStatuses}

HeldBy(u) ==
    {b \in BorrowIds : borrows[b].user_id = u /\ borrows[b].status \in HeldStatuses}

\* no createBorrow request is in flight
Quiescent == InFlight = {}

\* process p took the step and its createBorrow call returned with it
Returned(p) == req[p].pc # "idle" /\ req'[p].pc = "idle"

\* the step sent a createBorrow response other than the 201
FailureSent == (\E p \in Procs : Returned(p)) /\ resp'.status # 201

\* process p inserted a borrow record with the step
Inserted(p) == req[p].pc = "insert" /\ req'[p].pc = "markUnavailable"

\* C1: every item has at most one borrow record that is active or overdue
C1_AtMostOneHolder ==
    \A i \in ItemIds : Cardinality(Holders(i)) <= 1

\* C2: once all the concurrent reserve calls on the item have returned,
\* exactly one of them created a borrow record and the others got 409
C2_ExactlyOneReserveWins ==
    (\A p \in Procs : req[p].pc = "idle")
        => /\ Len(borrows) = 1
           /\ resp.status \in {201, 409}

\* C3: between operations, isItemAvailable(item) is false exactly when an
\* active or overdue borrow record of the item exists
C3_UnavailableIffHeld ==
    Quiescent =>
        \A i \in ItemIds : ItemExists(i) =>
            (~IsItemAvailable(i) <=> Holders(i) # {})

\* C4: between operations, items.available is 0 exactly when an active or
\* overdue borrow record of the item exists
C4_FlagIffHeld ==
    Quiescent =>
        \A i \in ItemIds : ItemExists(i) =>
            (items[i].available = 0 <=> Holders(i) # {})

\* C5: isItemAvailable is true exactly when the item exists, its flag is set
\* and no borrow record of the item is active or overdue
C5_IsAvailableDefinition ==
    \A i \in ItemIds :
        IsItemAvailable(i) <=>
            (ItemExists(i) /\ items[i].available = 1 /\ Holders(i) = {})

\* C6: a createBorrow call that does not succeed leaves the ledger as it
\* was: the step that sends the failure changes neither borrow_records nor
\* items, the call that returns with it has inserted no record, and only a
\* call that has inserted its record ever writes an item
C6_FailedReserveLeavesLedger ==
    [][/\ FailureSent =>
            /\ borrows' = borrows
            /\ items' = items
            /\ \A p \in Procs : Returned(p) => req[p].borrow_id = 0
       /\ (req' # req /\ items' # items) =>
            \E p \in Procs : req[p].borrow_id # 0 /\ req'[p] # req[p]]_vars

\* C6 witness: an eligibility denial was just sent while the ledger holds a
\* borrow record and an item still flagged available
C6_Witness ==
    /\ resp.status = 403
    /\ Len(borrows) >= 1
    /\ \E i \in ItemIds : ItemExists(i) /\ items[i].available = 1

\* C7: a call passes the plan-limit check only if the user's active and
\* overdue borrow records together number less than max_items
C7_OverdueCountsTowardLimit ==
    [][\A p \in Procs :
          (req[p].pc = "selActive" /\ req'[p].pc = "insert")
              => Cardinality(HeldBy(req[p].userId)) < req[p].maxItems]_vars

\* C8: a call that reads a user level below the item's min_level_required
\* is denied with 403 and inserts nothing, and every inserted borrow record
\* belongs to a call that read a sufficient level
C8_NoBorrowBelowLevel ==
    [][\A p \in Procs :
          /\ ( /\ req[p].pc = "selUser"
               /\ req'[p] # req[p]
               /\ users[req[p].userId].level < req[p].min_level_required )
                => /\ resp' = [status |-> 403, reason |-> "Item requires level"]
                   /\ req'[p].pc = "idle"
                   /\ borrows' = borrows
          /\ Inserted(p) =>
                req[p].level >= req[p].min_level_required]_vars

\* C8 witness: the level denial was just sent
C8_Witness ==
    resp = [status |-> 403, reason |-> "Item requires level"]

\* the tiers a plan permits: those up to its max_risk_level
Tiers == <<"low", "medium", "high">>

PermittedTiers(maxRisk) ==
    {Tiers[k] : k \in {j \in 1..3 : \E m \in j..3 : Tiers[m] = maxRisk}}

\* C9: no borrow record is inserted for an item whose risk_level, as the
\* call read it, is not among the tiers the borrower's plan permits
C9_NoBorrowAboveRiskTier ==
    [][\A p \in Procs :
          Inserted(p) => req[p].risk_level \in PermittedTiers(req[p].maxRiskLevel)]_vars

\* an expires_at that is set and lies in the past
ExpiryInPast(sub, t) == sub.present /\ sub.expires_at # NULL /\ sub.expires_at < t

\* C10 as stated: every createBorrow call of a user whose subscription has
\* expired returns 403 'Subscription expired'
C10_ExpiredAlwaysToldExpired ==
    [][\A p \in Procs :
          (Returned(p) /\ ExpiryInPast(subs[req[p].userId], now))
              => resp' = [status |-> 403, reason |-> "Subscription expired"]]_vars

\* C10 amended: a call that reaches the subscription check with an expires_at
\* in the past returns 403 'Subscription expired' there; no call inserts a
\* borrow record for a user whose expires_at is in the past; and the response
\* is sent in no other case, so never for a row without expires_at
C10_ExpiredSubscriptionDenied ==
    [][/\ \A p \in Procs :
            /\ ( /\ req[p].pc = "selSub"
                 /\ req'[p] # req[p]
                 /\ ExpiryInPast(subs[req[p].userId], now) )
                   => /\ resp' = [status |-> 403, reason |-> "Subscription expired"]
                      /\ req'[p].pc = "idle"
                      /\ req[p].borrow_id = 0
                      /\ borrows' = borrows
            /\ Inserted(p) => ~ExpiryInPast(subs[req[p].userId], now)
       /\ resp'.reason = "Subscription expired" =>
            \E p \in Procs : /\ req[p].pc = "selSub"
                             /\ Returned(p)
                             /\ ExpiryInPast(subs[req[p].userId], now)]_vars

\* C10 witness: the expiry denial was just sent, and a user whose row has no
\* expires_at has borrowed at the same clock value
C10_Witness ==
    /\ resp = [status |-> 403, reason |-> "Subscription expired"]
    /\ \E b \in BorrowIds : /\ subs[borrows[b].user_id].present
                             /\ subs[borrows[b].user_id].expires_at = NULL
                             /\ borrows[b].borrowed_at = now

\* the reason of the first check that fails for the call of process p, the
\* checks taken in the order plan limit, risk tier, level, expiry and
\* evaluated as the handlers evaluate them; "" when none fails
FirstFailingCheck(p) ==
    LET u == req[p].userId
        sub == subs[u]
        maxItems == IF sub.present THEN sub.max_items ELSE 1
        maxRisk == IF sub.present THEN sub.max_risk_level ELSE "low"
    IN  IF LimitReached(Cardinality(ActiveBorrowsOfUser(u)), maxItems)
        THEN "Maximum items allowed for your plan"
        ELSE IF RiskNotAllowed(req[p].risk_level, maxRisk)
        THEN "Your plan doesn't allow this risk level"
        ELSE IF InsufficientLevel(users[u].level, req[p].min_level_required)
        THEN "Item requires level"
        ELSE IF IsExpired(sub, now)
        THEN "Subscription expired"
        ELSE ""

\* C11: a createBorrow call denied for eligibility (403) returns the reason
\* of the first failing check in the order plan limit, risk tier, level,
\* subscription expiry
C11_FirstFailingCheckWins ==
    [][\A p \in Procs :
          (Returned(p) /\ resp'.status = 403)
              => resp'.reason = FirstFailingCheck(p)]_vars

\* C12: every user's trust_score is within [0, 200]
C12_TrustWithinBounds ==
    \A u \in Users : users[u].trust_score >= 0 /\ users[u].trust_score <= TrustCap

\* C13: the sweep turns to 'overdue' exactly the records that are 'active'
\* with due_at < now, changes no other field and no other record, and leaves
\* every item's availability flag as it was
C13_SweepFrame ==
    [][GetOverdueBorrows =>
          /\ Len(borrows') = Len(borrows)
          /\ \A b \in BorrowIds :
                /\ borrows'[b].status =
                      IF borrows[b].status = "active" /\ borrows[b].due_at < now
                      THEN "overdue"
                      ELSE borrows[b].status
                /\ [borrows'[b] EXCEPT !.status = borrows[b].status] = borrows[b]
          /\ items' = items]_vars

\* C13 witness: the sweep has turned a record 'overdue' in a ledger that
\* also holds a 'returned' record
C13_Witness ==
    /\ \E b \in BorrowIds : borrows[b].status = "overdue" /\ borrows[b].due_at < now
    /\ \E b \in BorrowIds : borrows[b].status = "returned"

\* C14: after a run of the sweep, a second run at once leaves the ledger as
\* it is and matches zero records
C14_SweepIdempotent ==
    [][GetOverdueBorrows =>
          /\ SweepOverdue(borrows', now') = borrows'
          /\ SweepCount(borrows', now') = 0]_vars

\* C14 witness: a record is 'overdue' after a sweep, another is active and
\* not yet due, and a further run would match nothing
C14_Witness ==
    /\ \E b \in BorrowIds : borrows[b].status = "overdue"
    /\ \E b \in BorrowIds : borrows[b].status = "active" /\ borrows[b].due_at >= now
    /\ SweepOverdue(borrows, now) = borrows

\* C15: a returnItem call on a missing record is answered 404 and one on a
\* 'returned' record 400, and the call changes no borrow record, no item,
\* no cache entry and no user
C15_DeniedReturnChangesNothing ==
    [][\A id \in BorrowIdInputs, notes \in ReturnNotes, c \in Conditions :
          /\ (id \notin BorrowIds /\ ReturnItem(id, notes, c))
                => /\ resp' = [status |-> 404, reason |-> "Borrow record not found"]
                   /\ UNCHANGED <<borrows, items, kv, users>>
          /\ ( /\ id \in BorrowIds
               /\ borrows[id].status = "returned"
               /\ ReturnItem(id, notes, c) )
                => /\ resp' = [status |-> 400, reason |-> "Item already returned"]
                   /\ UNCHANGED <<borrows, items, kv, users>>]_vars

\* C15 witness: a return of a 'returned' record was just denied while the
\* record's item has a cache entry
C15_Witness ==
    /\ resp = [status |-> 400, reason |-> "Item already returned"]
    /\ \E b \in BorrowIds : /\ borrows[b].status = "returned"
                             /\ kv[borrows[b].item_id] # "none"

\* C16: a returnItem call on an active or overdue record is answered 200,
\* sets the record to 'returned' with returned_at = now and the notes given,
\* sets the item's flag to 1 and deletes the item's cache entry; when no
\* other record of the item is active or overdue, isItemAvailable is true
\* in the state it leaves
C16_ReturnEffects ==
    [][\A id \in BorrowIdInputs, notes \in ReturnNotes, c \in Conditions :
          ( /\ id \in BorrowIds
            /\ borrows[id].status \in HeldStatuses
            /\ ReturnItem(id, notes, c) )
              => LET i == borrows[id].item_id IN
                 /\ resp' = [status |-> 200, reason |-> "Item returned successfully"]
                 /\ borrows'[id].status = "returned"
                 /\ borrows'[id].returned_at = now
                 /\ borrows'[id].condition_notes = notes
                 /\ \A b \in BorrowIds \ {id} : borrows'[b] = borrows[b]
                 /\ items'[i].available = 1
                 /\ kv'[i] = "none"
                 /\ (Holders(i) \ {id} = {}) => IsItemAvailable(i)']_vars

\* C16 witness: an overdue record was just returned and its item is
\* available again
C16_Witness ==
    /\ resp = [status |-> 200, reason |-> "Item returned successfully"]
    /\ \E b \in BorrowIds : /\ borrows[b].status = "returned"
                             /\ borrows[b].returned_at = now
                             /\ borrows[b].due_at < now
                             /\ borrows[b].condition_notes \in ReturnNotes
                             /\ IsItemAvailable(borrows[b].item_id)

\* the status changes a borrow record may undergo
AllowedTransitions ==
    {<<"active", "overdue">>, <<"active", "returned">>, <<"overdue", "returned">>}

\* C17: no record is ever removed, and a record's status changes only along
\* active -> overdue, active -> returned, overdue -> returned; a 'returned'
\* record keeps its status for ever
C17_StatusTransitions ==
    [][\A b \in BorrowIds :
          /\ b <= Len(borrows')
          /\ borrows'[b].status # borrows[b].status
                => <<borrows[b].status, borrows'[b].status>> \in AllowedTransitions]_vars

\* C17 witness: one record was concluded by the admin override after its due
\* time and another record is active
C17_Witness ==
    /\ \E b \in BorrowIds : /\ borrows[b].status = "returned"
                             /\ borrows[b].condition_notes = "[ADMIN OVERRIDE]"
                             /\ borrows[b].returned_at > borrows[b].due_at
    /\ \E b \in BorrowIds : borrows[b].status = "active"

\* the canonical delta of returning record b at time t in the given condition
CanonicalDelta(b, condition, t) ==
    IF condition = "damaged" THEN TRUST_CHANGES.ITEM_DAMAGED
    ELSE IF t > borrows[b].due_at + VeryLateDays * DaySeconds
         THEN TRUST_CHANGES.RETURN_VERY_LATE
    ELSE IF t > borrows[b].due_at THEN TRUST_CHANGES.RETURN_LATE
    ELSE TRUST_CHANGES.RETURN_ON_TIME

\* C18: a successful returnItem moves the borrower's trust score by the
\* canonical delta of the event (+2 on time, -5 late, -15 more than 3 days
\* overdue, -10 damaged), clamped to [0, 200]
C18_CanonicalTrustDelta ==
    [][\A id \in BorrowIdInputs, c \in Conditions :
          ( /\ id \in BorrowIds
            /\ borrows[id].status # "returned"
            /\ ReturnItem(id, "", c) )
          => LET u == borrows[id].user_id
             IN  users'[u].trust_score =
                     UpdateTrustScore(users[u].trust_score,
                                      CanonicalDelta(id, c, now))]_vars

\* C19: the effects of a reserve commit together or not at all: once no call
\* is in flight, every active record's item has its flag cleared and its
\* cache entry does not say available, whatever storage failure occurred
C19_ReserveAllOrNothing ==
    Quiescent =>
        \A b \in BorrowIds :
            borrows[b].status = "active"
                => /\ items[borrows[b].item_id].available = 0
                   /\ kv[borrows[b].item_id] # "true"

\* C20: a step that concludes a reservation (sets its status to 'returned')
\* applies a trust delta to the borrower within the same step; a score that
\* is already at the cap may stay
C20_TrustAppliedOnConclusion ==
    [][\A b \in BorrowIds :
          ( /\ borrows[b].status # "returned"
            /\ borrows'[b].status = "returned" )
          => LET u == borrows[b].user_id
             IN  \/ users'[u].trust_score # users[u].trust_score
                 \/ users[u].trust_score >= TrustCap]_vars

\* C21: once no call is in flight, no cache entry disagrees with
\* isItemAvailable of its item
C21_NoStaleCacheEntry ==
    Quiescent =>
        \A i \in ItemIds :
            kv[i] # "none" => kv[i] = BoolString(IsItemAvailable(i))

\* the answer of createBorrow as the ledger alone determines it
LedgerDecision(uid, iid) ==
    LET sub == subs[uid]
        maxItems == IF sub.present THEN sub.max_items ELSE 1
        maxRisk == IF sub.present THEN sub.max_risk_level ELSE "low"
    IN  IF ~ItemExists(iid)
        THEN [status |-> 404, reason |-> "Item not found"]
        ELSE IF ~IsItemAvailable(iid)
        THEN [status |-> 409, reason |-> "Item is not available for borrowing"]
        ELSE IF InsufficientLevel(users[uid].level, items[iid].min_level_required)
        THEN [status |-> 403, reason |-> "Item requires level"]
        ELSE IF IsExpired(sub, now)
        THEN [status |-> 403, reason |-> "Subscription expired"]
        ELSE IF LimitReached(Cardinality(ActiveBorrowsOfUser(uid)), maxItems)
        THEN [status |-> 403, reason |-> "Maximum items allowed for your plan"]
        ELSE IF RiskNotAllowed(items[iid].risk_level, maxRisk)
        THEN [status |-> 403, reason |-> "Your plan doesn't allow this risk level"]
        ELSE [status |-> 201, reason |-> "Borrow created successfully"]

\* C22: the outcome of a reserve is a function of the ledger, whatever the
\* availability cache holds: a refusal is the refusal the ledger determines,
\* and a record is inserted only when the ledger admits the reserve
C22_CacheIsAdvisory ==
    [][\A p \in Procs :
          /\ (Returned(p) /\ resp'.status # 201)
                => resp' = LedgerDecision(req[p].userId, req[p].item_id)
          /\ Inserted(p)
                => LedgerDecision(req[p].userId, req[p].item_id).status = 201]_vars

\* C22 witness: a reserve passed both availability statements on the ledger
\* for an item whose cache entry says it is unavailable
C22_Witness ==
    \E p \in Procs :
        /\ req[p].pc = "selUser"
        /\ kv[req[p].item_id] = "false"
        /\ IsItemAvailable(req[p].item_id)

\* C23: no two borrow records carry the same handover token
C23_TokensUnique ==
    \A a, b \in BorrowIds : a # b => borrows[a].qr_code # borrows[b].qr_code

\* C24: confirmHandover answers 404 when no record carries the token and 400
\* when no record carrying it is active, confirms only an active record, and
\* in every case leaves borrow records and item flags unchanged
C24_HandoverChecksAndFrame ==
    [][\A qr \in HandoverInputs :
          ConfirmHandover(qr)
          => /\ borrows' = borrows
             /\ items' = items
             /\ (qr # "" /\ RecordsWithToken(qr) = {})
                    => resp' = [status |-> 404, reason |-> "Invalid QR code"]
             /\ ( /\ RecordsWithToken(qr) # {}
                  /\ \A b \in RecordsWithToken(qr) : borrows[b].status # "active" )
                    => resp' = [status |-> 400, reason |-> "Borrow is not active"]
             /\ resp'.status = 200
                    => \E b \in RecordsWithToken(qr) : borrows[b].status = "active"]_vars

\* C24 witness: the handover of an overdue reservation was just refused
C24_Witness ==
    /\ resp = [status |-> 400, reason |-> "Borrow is not active"]
    /\ \E b \in BorrowIds : borrows[b].status = "overdue"
    /\ \A b \in BorrowIds : borrows[b].status # "active"

\* the tokens confirmHandover would confirm
ConfirmableTokens ==
    {borrows[b].qr_code : b \in {x \in BorrowIds : borrows[x].status = "active"}}

\* C25: a token is used up by its confirmation: after a step that answered
\* 'Handover confirmed' for a token, confirmHandover refuses that token
C25_TokenSingleUse ==
    [][\A qr \in TokenCodes :
          (ConfirmHandover(qr) /\ resp'.status = 200)
          => qr \notin ConfirmableTokens']_vars

\* the requests createBorrow has accepted and not yet answered
Accepted == {p \in Procs : req[p].duration_days # 0}

\* C26: createBorrow goes on only with a duration_days in 1..30: every
\* other value was answered 400 at validation and changed nothing
C26_DurationValidated ==
    \A p \in Accepted : req[p].duration_days \in MinDuration..MaxDuration

\* C27: every borrow record is due exactly its duration after its creation
\* time: due_at = borrowed_at + d * 86400 for a d in 1..30
C27_DueAtExact ==
    \A b \in BorrowIds :
        \E d \in MinDuration..MaxDuration :
            borrows[b].due_at = borrows[b].borrowed_at + d * DaySeconds

\* C28: without an admin set-level, no step lowers a user's stored level
C28_LevelNeverDecreases ==
    [][\A u \in Users : users'[u].level >= users[u].level]_vars

\* C29: once every award has completed, each user's stored level is at
\* least the level its reward_points amount to
C29_LevelFollowsPoints ==
    Quiescent =>
        \A u \in Users : users[u].level >= calculateLevel(users[u].reward_points)

\* C30: the reward_points update of awardPoints never lowers the balance
C30_AwardNeverLowersPoints ==
    [][\A p \in Procs :
          (req[p].pc = "idle" /\ req'[p].pc = "checkLevelUp")
          => LET u == req'[p].userId
             IN  users'[u].reward_points >= users[u].reward_points]_vars

\* ten times the tier multiplier of a subscription row
TierTenths(sub) ==
    IF ~sub.present THEN 10
    ELSE CASE sub.plan = "BASIC" -> 10
           [] sub.plan = "MAKER" -> 15
           [] sub.plan = "INNOVATOR" -> 20

\* the largest integer n with 10 * n <= x
FloorOfTenths(x) == CHOOSE n \in -200..200 : 10 * n <= x /\ x < 10 * (n + 1)

CoordinatorStep ==
    \/ \E p \in Procs : CreateBorrowStep(p)
    \/ \E id \in BorrowIdInputs : ReturnItem(id, "", "good")
    \/ GetOverdueBorrows

\* C32: only reserve, return and the sweep change an item's availability
\* flag or the borrow records
C32_OnlyCoordinatorWritesLedger ==
    [][( \/ borrows' # borrows
         \/ \E i \in ItemIds : items'[i].available # items[i].available )
       => CoordinatorStep]_vars

\* the borrow records of item i, in order
RecordsOfItem(bs, i) == SelectSeq(bs, LAMBDA r : r.item_id = i)

\* flag, borrow records and cache entry of every item but i stay as they are
OtherItemsUnchanged(i) ==
    \A j \in ItemIds \ {i} :
        /\ items'[j] = items[j]
        /\ kv'[j] = kv[j]
        /\ RecordsOfItem(borrows', j) = RecordsOfItem(borrows, j)

\* C33: a step of createBorrow or returnItem for one item leaves every other
\* item's flag, borrow records and cache entry unchanged, and the answer of a
\* createBorrow is the one its own item and user determine, whatever is done
\* to the other item meanwhile
C33_ItemsDoNotInterfere ==
    [][/\ \A p \in Procs :
            /\ req[p].pc \notin {"idle"} /\ req'[p] # req[p]
                  => OtherItemsUnchanged(req[p].item_id)
            /\ (Returned(p) /\ resp'.status # 201)
                  => resp' = LedgerDecision(req[p].userId, req[p].item_id)
            /\ Inserted(p)
                  => LedgerDecision(req[p].userId, req[p].item_id).status = 201
       /\ \A id \in BorrowIds :
            (borrows[id].status # "returned" /\ ReturnItem(id, "", "good"))
                  => OtherItemsUnchanged(borrows[id].item_id)]_vars

\* C33 witness: item 2 is held and cached as unavailable while a reserve of
\* item 1 has passed its checks
C33_Witness ==
    /\ req[1].pc = "insert"
    /\ req[1].item_id = 1
    /\ kv[2] = "false"
    /\ \E b \in BorrowIds : borrows[b].item_id = 2 /\ borrows[b].status = "active"

\* C34: no user holds more active and overdue borrow records than the
\* max_items of the user's subscription, 1 without a subscription
C34_HeldWithinPlanLimit ==
    \A u \in Users :
        Cardinality(HeldBy(u)) <= IF subs[u].present THEN subs[u].max_items ELSE 1

\* the borrow records of user u that are concluded
ConcludedBy(u) ==
    {b \in BorrowIds : borrows[b].user_id = u /\ borrows[b].status = "returned"}

\* C35: each reservation is concluded once: a user's trust score has risen
\* by at most one good-return delta per concluded record
C35_ConcludedOnce ==
    \A u \in Users :
        users[u].trust_score
            <= DefaultTrust + GoodReturnDelta * Cardinality(ConcludedBy(u))

\* C36: a borrow record has a returned_at exactly when its status is
\* 'returned'
C36_ReturnedAtIffReturned ==
    \A b \in BorrowIds :
        (borrows[b].returned_at # NULL) <=> (borrows[b].status = "returned")

\* a record that the sweep marked overdue was returned by a request whose
\* UPDATE has run while its later statements are still pending
C36_Witness ==
    \E b \in BorrowIds, p \in Procs :
        /\ req[p].pc = "returnFlag"
        /\ req[p].borrow_id = b
        /\ borrows[b].status = "returned"
        /\ borrows[b].returned_at > borrows[b].due_at

\* C37: deleteItem answers 409 and leaves the item in place whenever a
\* borrow record of the item is active or overdue
C37_DeleteRefusedWhileHeld ==
    [][\A id \in ItemIds :
          (Holders(id) # {} /\ DeleteItem(id))
              => /\ resp'.status = 409
                 /\ items' = items]_vars

\* C38: a user with a subscription row has the row's plan as membership_tier,
\* and the row carries that plan's max_items and max_risk_level
C38_TierMatchesPlan ==
    \A u \in Users :
        subs[u].present
            => /\ users[u].membership_tier = subs[u].plan
               /\ subs[u].max_items = PLANS[subs[u].plan].max_items
               /\ subs[u].max_risk_level = PLANS[subs[u].plan].max_risk_level

\* the points a user's posts can have earned: the posting reward of every
\* post, and the approval bonus of every post marked reward_granted
PostEarnings(u) ==
    LET mine == {i \in PostIds : community_posts[i].user_id = u}
        granted == {i \in mine : community_posts[i].reward_granted = 1}
    IN  Cardinality(mine) * AwardedPoints("COMMUNITY_POST", getRewardMultiplier(u))
        + Cardinality(granted) * AwardedPoints("POST_APPROVED", getRewardMultiplier(u))

\* C39: the approval bonus is granted at most once per post: an author's
\* points never exceed one posting reward per post plus one bonus per post
\* that was approved
C39_BonusOncePerPost ==
    \A u \in Users : users[u].reward_points <= PostEarnings(u)

\* C40: an OTP is used once: while no key has expired, the sessions created
\* for the email are at most as many as the OTPs stored for it
C40_OneSessionPerOtp ==
    auth_kv.sessions <= auth_kv.otp_rate

====
